---- MODULE Spec2Model ----
(***************************************************************************)
(* Model of the two scripts of Tirgul#2.                                   *)
(*                                                                         *)
(* Script one, dirac_fourier_gui.py: the slider, the play button, the      *)
(* animation timer and the try/except wrapper around main().               *)
(* Script two, fourier_limit.py: the period slider and the loop of         *)
(* compute_fourier_series.                                                 *)
(*                                                                         *)
(* Fixed point.  Widths are integers in units of 0.001 (the slider's       *)
(* valstep), so min_width = 1 and max_width = 2000.  Base-10 logarithms    *)
(* are integers in units of 1/10000 decade, relative to width 1.0.         *)
(* Sample heights 1/epsilon are integers in units of 0.001.                *)
(***************************************************************************)
EXTENDS Integers, Sequences, FiniteSets, TLC

VARIABLES
    \* ---- script one --------------------------------------------------
    pc,                 \* position of the script: off (not launched) / main / except /
                        \* showerror / terminated / exit
    main_exc,           \* the exception main() raised, "None" if none
    exc,                \* the exception bound to e by the except clause
    dialog,             \* the error dialog: none / open / closed
    raised,             \* the exception that left the script, "None" if none
    width_slider,       \* width_slider.val
    plot_width,         \* the width update_plots last drew the curves with
    play_button,        \* the label of the play button
    animation_active,
    animation_timer,    \* "None" or "running": the timer the variable refers to
    timers_running,     \* timers started and not stopped
    animation_frames,
    current_frame,
    late_tick,          \* a tick queued before the timer was stopped: none / pending
    restarts,           \* animations started in a row from a width an interrupted animation left
    start_val,          \* history: width_slider.val at the last start of an animation
    ticks,              \* history: frames applied by ticks since the last start
    \* ---- script two --------------------------------------------------
    pc2,                \* "off" (not launched), "idle" or "loop" (inside compute_fourier_series)
    T,                  \* slider.val
    n_vals,
    fn,
    Cn,
    num_coeffs          \* the number shown as '# of coeffs'

vars1 == <<pc, main_exc, exc, dialog, raised, width_slider, plot_width, play_button,
           animation_active, animation_timer, timers_running, animation_frames,
           current_frame, late_tick, restarts, start_val, ticks>>
vars2 == <<pc2, T, n_vals, fn, Cn, num_coeffs>>
vars == <<vars1, vars2>>

(***************************************************************************)
(* Bounds and program constants                                            *)
(***************************************************************************)
\* number of interior slider positions a manual move may choose
NumManual == 1

\* how many animations in a row may start from a width that an interrupted
\* animation left on the slider (a start from a manual position or from the
\* initial one begins anew)
MaxRestarts == 0

min_width == 1
max_width == 2000
init_width == 500
valstep == 1
NumFrames == 100
fs == 1000
time_range == 5
T1 == 1
f_max == 10
T0 == 4
SliderMinT == 1
SliderMaxT == 20

Abs(x) == IF x < 0 THEN -x ELSE x

\* a / b rounded to the nearest integer, b > 0
RoundDiv(a, b) == (2 * a + b) \div (2 * b)

(***************************************************************************)
(* np.log10, np.power(10, .), np.linspace, np.logspace in fixed point      *)
(***************************************************************************)
LogScale == 10000
LogSeg == 250

\* round(1000 * 10^(k/40)), k = 0..40
Pow10Table ==
    <<1000, 1059, 1122, 1189, 1259, 1334, 1413, 1496, 1585, 1679,
      1778, 1884, 1995, 2113, 2239, 2371, 2512, 2661, 2818, 2985,
      3162, 3350, 3548, 3758, 3981, 4217, 4467, 4732, 5012, 5309,
      5623, 5957, 6310, 6683, 7079, 7499, 7943, 8414, 8913, 9441, 10000>>

RECURSIVE TenTo(_)
TenTo(d) == IF d = 0 THEN 1 ELSE 10 * TenTo(d - 1)

\* 10^(y/LogScale) in units of 0.001, for y >= -3 decades
Pow10(y) ==
    LET d == y \div LogScale
        r == y - LogScale * d
        k == r \div LogSeg
        mant == Pow10Table[k + 1]
                + RoundDiv((Pow10Table[k + 2] - Pow10Table[k + 1]) * (r - LogSeg * k), LogSeg)
    IN  IF d >= 0 THEN mant * TenTo(d) ELSE RoundDiv(mant, TenTo(-d))

\* log10(w/1000) in units of 1/LogScale, for w in 1..9999
Log10(w) ==
    LET d == IF w < 10 THEN -3 ELSE IF w < 100 THEN -2 ELSE IF w < 1000 THEN -1 ELSE 0
        mant == w * TenTo(-d)
        k == CHOOSE j \in 0..39 : Pow10Table[j + 1] <= mant /\ mant < Pow10Table[j + 2]
    IN  LogScale * d + LogSeg * k
        + RoundDiv((mant - Pow10Table[k + 1]) * LogSeg, Pow10Table[k + 2] - Pow10Table[k + 1])

\* np.linspace(start, stop, num): start + i*step, the last sample is stop
linspace_open(start, stop, num) ==
    [i \in 1..num |-> start + (((i - 1) * (stop - start)) \div num)]

linspace(start, stop, num) ==
    [i \in 1..num |-> start + (((i - 1) * (stop - start)) \div (num - 1))]

logspace(start, stop, num) ==
    LET y == linspace(start, stop, num)
    IN  [i \in 1..num |-> Pow10(y[i])]

(***************************************************************************)
(* Script one: the pulse on the time axis                                  *)
(***************************************************************************)
NumSamples == fs * 2

\* t = np.linspace(-time_range, time_range, fs*2): t[i] = t_num(i) / t_den
t_den == NumSamples - 1
t_num(i) == 2 * time_range * i - time_range * t_den

\* rect(t[i], width): 1 where |t| <= width/2, width in units of 0.001
rect(i, width) == IF Abs(t_num(i)) * 2000 <= width * t_den THEN 1 ELSE 0

\* dirac_rect(t[i], epsilon), in units of 0.001
dirac_rect(i, epsilon) == (1000000 \div epsilon) * rect(i, epsilon)

\* the time-domain curve update_plots draws
y_time(i) == dirac_rect(i, plot_width)

RECURSIVE SumSamples(_, _)
SumSamples(lo, hi) ==
    IF lo = hi THEN y_time(lo)
    ELSE LET mid == (lo + hi) \div 2
         IN  SumSamples(lo, mid) + SumSamples(mid + 1, hi)

\* sum of the samples times the grid spacing 2*time_range/t_den, in units of 0.001
PulseArea == (SumSamples(0, NumSamples - 1) * 2 * time_range) \div t_den

(***************************************************************************)
(* Script one: the widgets                                                 *)
(***************************************************************************)
\* the positions a manual move can leave the slider at: the two ends and
\* NumManual interior grid points
ManualVals ==
    {min_width, max_width}
    \cup {min_width + j * ((max_width - min_width) \div (NumManual + 1)) : j \in 1..NumManual}

\* slider_update: update_plots(width_slider.val)
slider_update_not_called == UNCHANGED plot_width

slider_update == plot_width' = width_slider'

\* Slider.set_val: stores the value as given and notifies the observers
set_val(w) == width_slider' = w /\ slider_update

\* the event queue is first in, first out: a tick queued before the timer
\* was stopped is dispatched before any later event
QueueClear == late_tick # "pending"

\* a manual move of the slider to another grid position
SliderMove(w) ==
    /\ pc = "main"
    /\ QueueClear
    /\ w # width_slider
    /\ set_val(w)
    /\ late_tick' = "none"
    /\ UNCHANGED <<pc, main_exc, exc, dialog, raised, play_button, animation_active,
                   animation_timer, timers_running, animation_frames, current_frame,
                   restarts, start_val, ticks>>
    /\ UNCHANGED vars2

\* line 170: the test that ends the animation
AnimationOver_frames_only == current_frame >= Len(animation_frames)

AnimationOver == ~animation_active \/ current_frame >= Len(animation_frames)

\* lines 172-176 and 186-190: back to the idle button, flag and timer
\* animation_timer.stop(); animation_timer = None, when it is not None
stop_timer ==
    /\ timers_running' = IF animation_timer # "None" THEN timers_running - 1 ELSE timers_running
    /\ animation_timer' = "None"

reset_animation ==
    /\ play_button' = "Play Animation"
    /\ animation_active' = FALSE
    /\ stop_timer

\* line 180: the width a tick applies
frame_width_unless_moved ==
    IF current_frame > 0 /\ width_slider # animation_frames[current_frame]
    THEN width_slider
    ELSE animation_frames[current_frame + 1]

frame_width == animation_frames[current_frame + 1]

step_animation ==
    IF AnimationOver
    THEN /\ reset_animation
         /\ UNCHANGED <<width_slider, plot_width, current_frame, ticks>>
    ELSE /\ set_val(frame_width)
         /\ current_frame' = current_frame + 1
         /\ ticks' = ticks + 1
         /\ IF current_frame + 1 >= Len(animation_frames)
            THEN reset_animation
            ELSE UNCHANGED <<play_button, animation_active, animation_timer, timers_running>>

\* lines 214-219: the frames of a new animation
new_frames_raw_start(current_width) ==
    IF current_width <= min_width
    THEN logspace(10 * max_width, Log10(min_width), NumFrames)
    ELSE logspace(10 * current_width, Log10(min_width), NumFrames)

new_frames_from_current(current_width) ==
    logspace(Log10(current_width), Log10(min_width), NumFrames)

new_frames(current_width) ==
    IF current_width <= min_width
    THEN logspace(Log10(max_width), Log10(min_width), NumFrames)
    ELSE logspace(Log10(current_width), Log10(min_width), NumFrames)

\* lines 198-204: the stop branch of play_clicked
stop_clicked_keeps_flag ==
    /\ stop_timer
    /\ play_button' = "Play Animation"
    /\ UNCHANGED animation_active

stop_clicked ==
    /\ stop_timer
    /\ play_button' = "Play Animation"
    /\ animation_active' = FALSE

\* lines 205-229: the start branch of play_clicked
start_clicked ==
    /\ play_button' = "Stop Animation"
    /\ animation_active' = TRUE
    /\ current_frame' = 0
    /\ animation_frames' = new_frames(width_slider)
    /\ animation_timer' = "running"
    /\ timers_running' = timers_running + 1

play_clicked ==
    /\ pc = "main"
    /\ QueueClear
    /\ IF animation_active
       THEN /\ stop_clicked
            \* the timer may have queued one more tick before it was stopped
            /\ late_tick' \in {"none", "pending"}
            /\ UNCHANGED <<current_frame, animation_frames, restarts, start_val, ticks>>
       ELSE /\ width_slider \in ManualVals \cup {init_width} \/ restarts < MaxRestarts
            /\ start_clicked
            /\ late_tick' = "none"
            /\ restarts' = IF width_slider \in ManualVals \cup {init_width} THEN 0 ELSE restarts + 1
            /\ start_val' = width_slider
            /\ ticks' = 0
    /\ UNCHANGED <<pc, main_exc, exc, dialog, raised, width_slider, plot_width>>
    /\ UNCHANGED vars2

\* timer_tick of a running timer
TimerTick ==
    /\ pc = "main"
    /\ timers_running > 0
    /\ step_animation
    /\ late_tick' = "none"
    /\ UNCHANGED <<pc, main_exc, exc, dialog, raised, animation_frames, restarts, start_val>>
    /\ UNCHANGED vars2

\* timer_tick delivered after its timer was stopped
LateTick ==
    /\ pc = "main"
    /\ late_tick = "pending"
    /\ step_animation
    /\ late_tick' = "none"
    /\ UNCHANGED <<pc, main_exc, exc, dialog, raised, animation_frames, restarts, start_val>>
    /\ UNCHANGED vars2

(***************************************************************************)
(* Script one: the try/except around main(), lines 247-257                 *)
(***************************************************************************)
\* what main() can raise: RuntimeError stands for the classes derived from
\* Exception, KeyboardInterrupt for those derived from BaseException only
ExceptionSubclasses == {"RuntimeError"}
BaseExceptionOnly == {"KeyboardInterrupt"}
Raisable == ExceptionSubclasses \cup BaseExceptionOnly

\* line 250: except Exception
CaughtByExcept(e) == e \in ExceptionSubclasses

\* the widgets and the closure variables of main() as main() builds them
\* (lines 141-164, 236); also the value they are given once main() has been
\* left and they no longer exist
GuiConstructed ==
    /\ width_slider = init_width
    /\ plot_width = init_width
    /\ play_button = "Play Animation"
    /\ animation_active = FALSE
    /\ animation_timer = "None"
    /\ timers_running = 0
    /\ animation_frames = <<>>
    /\ current_frame = 0
    /\ late_tick = "none"
    /\ restarts = 0
    /\ start_val = init_width
    /\ ticks = 0

GuiDiscarded ==
    /\ width_slider' = init_width
    /\ plot_width' = init_width
    /\ play_button' = "Play Animation"
    /\ animation_active' = FALSE
    /\ animation_timer' = "None"
    /\ timers_running' = 0
    /\ animation_frames' = <<>>
    /\ current_frame' = 0
    /\ late_tick' = "none"
    /\ restarts' = 0
    /\ start_val' = init_width
    /\ ticks' = 0

GuiUnchanged ==
    UNCHANGED <<width_slider, plot_width, play_button, animation_active, animation_timer,
                timers_running, animation_frames, current_frame, late_tick, restarts,
                start_val, ticks>>

\* main() raises e: the except clause takes it, or it leaves the script
MainRaises(e) ==
    /\ pc = "main"
    /\ main_exc' = e
    /\ IF CaughtByExcept(e)
       THEN pc' = "except" /\ exc' = e /\ UNCHANGED raised
       ELSE pc' = "terminated" /\ raised' = e /\ UNCHANGED exc
    /\ UNCHANGED dialog
    /\ GuiDiscarded
    /\ UNCHANGED vars2

\* plt.show() returns when the window is closed, and main() returns
MainReturns ==
    /\ pc = "main"
    /\ pc' = "exit"
    /\ UNCHANGED <<main_exc, exc, dialog, raised>>
    /\ GuiDiscarded
    /\ UNCHANGED vars2

\* line 256: messagebox.showerror opens the dialog and blocks
showerror ==
    /\ pc = "except"
    /\ dialog' = "open"
    /\ pc' = "showerror"
    /\ UNCHANGED <<main_exc, exc, raised>>
    /\ GuiUnchanged
    /\ UNCHANGED vars2

\* line 257: what follows the dialog
reraise_swallowed == pc' = "exit" /\ UNCHANGED raised

reraise == pc' = "terminated" /\ raised' = exc

\* the dialog is dismissed, showerror returns, raise e
DialogReturns ==
    /\ pc = "showerror"
    /\ dialog' = "closed"
    /\ reraise
    /\ UNCHANGED <<main_exc, exc>>
    /\ GuiUnchanged
    /\ UNCHANGED vars2

(***************************************************************************)
(* Script two: compute_fourier_series and update_plots                     *)
(***************************************************************************)
\* np.arange(a, b)
arange(a, b) == [i \in 1..(b - a) |-> a + i - 1]

\* line 39: n_max = int(np.floor(f_max * T))
n_max_of(period) == f_max * period

\* line 40: n_vals = np.arange(-n_max, n_max + 1)
harmonics_open_end(period) == arange(-n_max_of(period), n_max_of(period))

harmonics(period) == arange(-n_max_of(period), n_max_of(period) + 1)

\* line 41: fn = n_vals / T, each frequency kept as the fraction <<n, T>>
frequencies(nv, period) == [i \in 1..Len(nv) |-> <<nv[i], period>>]

\* lines 45-47: the coefficient of harmonic n; the complex value of the
\* trapezoidal integral is kept symbolic, named by its harmonic and period
Cn_val(n, period) == [harmonic |-> n, period |-> period]

RECURSIVE all_coefficients(_, _, _)
all_coefficients(nv, period, k) ==
    IF k = 0 THEN <<>>
    ELSE Append(all_coefficients(nv, period, k - 1), Cn_val(nv[k], period))

\* slider_update -> update_plots -> compute_fourier_series, lines 35-43
BeginCompute(period) ==
    /\ pc2 = "idle"
    /\ period # T
    /\ T' = period
    /\ n_vals' = harmonics(period)
    /\ fn' = frequencies(n_vals', period)
    /\ Cn' = <<>>
    /\ pc2' = "loop"
    /\ UNCHANGED num_coeffs
    /\ UNCHANGED vars1

\* one pass of the loop, lines 44-48
LoopStep ==
    /\ pc2 = "loop"
    /\ Len(Cn) < Len(n_vals)
    /\ Cn' = Append(Cn, Cn_val(n_vals[Len(Cn) + 1], T))
    /\ UNCHANGED <<pc2, T, n_vals, fn, num_coeffs>>
    /\ UNCHANGED vars1

\* line 49 and update_plots lines 111-115, 131
EndCompute ==
    /\ pc2 = "loop"
    /\ Len(Cn) = Len(n_vals)
    /\ num_coeffs' = 2 * n_max_of(T) + 1
    /\ pc2' = "idle"
    /\ UNCHANGED <<T, n_vals, fn, Cn>>
    /\ UNCHANGED vars1

\* the state after update_plots(T0), lines 156-161
SeriesConstructed ==
    /\ pc2 = "idle"
    /\ T = T0
    /\ n_vals = harmonics(T0)
    /\ fn = frequencies(harmonics(T0), T0)
    /\ Cn = all_coefficients(harmonics(T0), T0, Len(harmonics(T0)))
    /\ num_coeffs = 2 * n_max_of(T0) + 1

(***************************************************************************)
(* Specifications                                                          *)
(***************************************************************************)
\* script two has not been launched
SeriesOff ==
    /\ pc2 = "off"
    /\ T = T0
    /\ n_vals = <<>>
    /\ fn = <<>>
    /\ Cn = <<>>
    /\ num_coeffs = 0

\* script one is running, its window built and shown
Init ==
    /\ pc = "main"
    /\ main_exc = "None"
    /\ exc = "None"
    /\ dialog = "none"
    /\ raised = "None"
    /\ GuiConstructed
    /\ SeriesOff

\* script two is running and script one has not been launched
InitSeries ==
    /\ pc = "off"
    /\ main_exc = "None"
    /\ exc = "None"
    /\ dialog = "none"
    /\ raised = "None"
    /\ GuiConstructed
    /\ SeriesConstructed

\* script one
Next ==
    \/ \E w \in ManualVals : SliderMove(w)
    \/ play_clicked
    \/ TimerTick
    \/ LateTick
    \/ \E e \in Raisable : MainRaises(e)
    \/ MainReturns
    \/ showerror
    \/ DialogReturns

Spec == Init /\ [][Next]_vars

\* script two
NextSeries ==
    \/ \E period \in SliderMinT..SliderMaxT : BeginCompute(period)
    \/ LoopStep
    \/ EndCompute

SpecSeries == InitSeries /\ [][NextSeries]_vars

(***************************************************************************)
(* Properties                                                              *)
(***************************************************************************)
\* a timer callback runs step_animation
Tick == TimerTick \/ LateTick

\* a step that starts an animation: play_clicked in its start branch
StartStep == pc = "main" /\ ~animation_active /\ animation_active'

\* the k-th of NumFrames log-spaced values from width a down to min_width
LogSpaced(a, k) ==
    Pow10(Log10(a) + (((k - 1) * (Log10(min_width) - Log10(a))) \div (NumFrames - 1)))

\* what the ticks of an animation do, given the width `from` it runs from:
\* tick k applies the k-th log-spaced value, the NumFrames-th tick applies
\* min_width and leaves the animation inactive with its timer stopped, no
\* earlier tick ends it
TicksRunFrom(from) ==
    (Tick /\ animation_active) =>
        /\ ticks' = ticks + 1
        /\ width_slider' = LogSpaced(from, ticks')
        /\ ticks' = 1 => width_slider' = from
        /\ ticks' < NumFrames => animation_active' /\ timers_running' = 1
        /\ ticks' = NumFrames =>
              /\ width_slider' = min_width
              /\ ~animation_active'
              /\ animation_timer' = "None"
              /\ timers_running' = 0

\* C1 as stated: an animation started by a play click runs from the slider's
\* value at the click down to min_width in exactly 100 ticks; the first tick
\* applies that value, each later tick the next log-spaced value, the 100th
\* tick min_width, after which the animation is inactive and the timer stopped.
C1_FromCurrentValue == [][TicksRunFrom(start_val)]_vars

\* C1 amended: the same, where the animation runs from the slider's value at
\* the click, or from max_width when that value is min_width or less.
C1_FromCurrentOrMax ==
    [][TicksRunFrom(IF start_val <= min_width THEN max_width ELSE start_val)]_vars

C1_Witness ==
    /\ pc = "main"
    /\ ~animation_active
    /\ ticks = NumFrames
    /\ start_val > min_width
    /\ width_slider = min_width
    /\ timers_running = 0

\* C2: a play click during an animation clears animation_active and stops the
\* timer, and while the animation is inactive no tick, a late one included,
\* changes the slider's width or the frame index.
C2_CancelStopsTicks ==
    [][ /\ (animation_active /\ play_clicked) =>
              (~animation_active' /\ animation_timer' = "None" /\ timers_running' = 0)
        /\ (~animation_active /\ Tick) =>
              (width_slider' = width_slider /\ current_frame' = current_frame
               /\ plot_width' = plot_width /\ ~animation_active') ]_vars

C2_Witness ==
    /\ pc = "main"
    /\ late_tick = "pending"
    /\ ~animation_active
    /\ animation_timer = "None"
    /\ current_frame \in 1..(NumFrames - 1)
    /\ width_slider = animation_frames[current_frame]

\* C3: the slider's width stays within [min_width, max_width] after any
\* sequence of slider moves, play/stop clicks and ticks.
C3_SliderInBounds == min_width <= width_slider /\ width_slider <= max_width

C3_Witness ==
    /\ animation_active
    /\ current_frame > 1
    /\ width_slider = animation_frames[current_frame]
    /\ width_slider \notin ManualVals

\* C4: after every event the curves on display were computed with the slider's
\* current width.
C4_PlotsFollowSlider == pc = "main" => plot_width = width_slider

C4_Witness ==
    /\ pc = "main"
    /\ ticks \in 2..(NumFrames - 1)
    /\ width_slider = animation_frames[ticks]
    /\ plot_width = animation_frames[ticks]
    /\ plot_width # start_val

\* what the wrapper does with an exception main() raised
Surfaced ==
    /\ pc # "exit"
    /\ raised # "None" => (raised = main_exc /\ dialog = "closed")
    /\ dialog = "open" => raised = "None"

AreaTol == 1000 \div 10

\* C6: on the time axis the pulse of the displayed width is 1/epsilon where
\* |t| <= epsilon/2 and 0 elsewhere, and the sum of its samples times the grid
\* spacing is approximately 1.
C6_UnitArea ==
    pc = "main" =>
        /\ \A i \in 0..(NumSamples - 1) :
              y_time(i) = IF 2 * Abs(t_num(i)) * 1000 <= plot_width * t_den
                          THEN 1000000 \div plot_width ELSE 0
        /\ Abs(PulseArea - 1000) <= AreaTol

\* C7: when compute_fourier_series has returned, the harmonics are exactly
\* -n_max..n_max with n_max = f_max*T, in order, fn and Cn have 2*n_max+1
\* entries each, that count is the one displayed, and every |n/T| <= f_max.
C7_SymmetricHarmonics ==
    pc2 = "idle" =>
        LET n_max == f_max * T
        IN  /\ Len(n_vals) = 2 * n_max + 1
            /\ \A i \in 1..Len(n_vals) : n_vals[i] = i - 1 - n_max
            /\ \A i \in 1..Len(n_vals) : n_vals[Len(n_vals) + 1 - i] = -n_vals[i]
            /\ Len(fn) = Len(n_vals)
            /\ Len(Cn) = Len(fn)
            /\ num_coeffs = Len(Cn)
            /\ \A i \in 1..Len(fn) : fn[i][1] = n_vals[i] /\ Abs(fn[i][1]) <= f_max * fn[i][2]
            /\ \A i \in 1..Len(Cn) : Cn[i] = [harmonic |-> i - 1 - n_max, period |-> T]

C7_Witness ==
    /\ pc2 = "idle"
    /\ T = SliderMaxT
    /\ Len(Cn) = 2 * f_max * SliderMaxT + 1
    /\ num_coeffs = Len(Cn)

\* C8: between callbacks animation_active, a running timer held by
\* animation_timer, and the 'Stop Animation' label go together, and at most
\* one timer runs.
C8_AnimationStateAgrees ==
    pc = "main" =>
        /\ animation_active <=> animation_timer # "None"
        /\ animation_active <=> play_button = "Stop Animation"
        /\ timers_running = IF animation_active THEN 1 ELSE 0

C8_Witness ==
    /\ pc = "main"
    /\ ~animation_active
    /\ animation_timer = "None"
    /\ play_button = "Play Animation"
    /\ late_tick = "none"
    /\ current_frame \in 1..(NumFrames - 1)
    /\ ticks = current_frame

\* C9: a manual slider move during an animation changes neither the frame
\* index nor the frames nor the ticks left, and the next tick overwrites the
\* slider with the next frame.
C9_FramesFixedAtPlay ==
    [][ /\ (animation_active /\ \E w \in ManualVals : SliderMove(w)) =>
              /\ current_frame' = current_frame
              /\ animation_frames' = animation_frames
              /\ Len(animation_frames') - current_frame' = Len(animation_frames) - current_frame
              /\ animation_active'
        /\ (animation_active /\ Tick) =>
              /\ width_slider' = animation_frames[current_frame + 1]
              /\ current_frame' = current_frame + 1
              /\ animation_frames' = animation_frames ]_vars

C9_Witness ==
    /\ animation_active
    /\ current_frame \in 1..(NumFrames - 1)
    /\ width_slider \in ManualVals
    /\ width_slider # animation_frames[current_frame]

\* the width an animation started at slider value v runs from
RunsFrom(v) == IF v <= min_width THEN max_width ELSE v

\* C10: a start with the slider at min_width or less makes 100 frames from
\* max_width down to min_width and its first tick sets the width to
\* max_width; any other start makes the first frame the slider's value; each
\* start resets the frame index to 0.
C10_StartAtMinimumRunsFromMax ==
    [][ /\ StartStep =>
              /\ current_frame' = 0
              /\ Len(animation_frames') = NumFrames
              /\ animation_frames'[1] = RunsFrom(width_slider)
              /\ animation_frames'[NumFrames] = min_width
        /\ (animation_active /\ current_frame = 0 /\ Tick) =>
              width_slider' = RunsFrom(start_val) ]_vars

C10_Witness ==
    /\ animation_active
    /\ start_val <= min_width
    /\ current_frame = 1
    /\ width_slider = max_width

====
